---- MODULE Spec2Model ----
(***************************************************************************)
(* Model of src/app.py: a Streamlit script that resolves HF_TOKEN, renders *)
(* the input widgets and, when the generate button is pressed, calls the   *)
(* remote text-generation service and shows the normalised response or the *)
(* error.  One script run is a sequence of steps (pc); a widget event      *)
(* starts the next run.  Python strings are sequences of string tokens, so *)
(* that str(response) differs from the response it prints.                 *)
(***************************************************************************)
EXTENDS Integers, Sequences, FiniteSets, TLC

VARIABLES secrets, environ, hf_token, model, max_tokens, temperature,
          user_query, button, pc, screen, run, inflight, last

vars == <<secrets, environ, hf_token, model, max_tokens, temperature,
          user_query, button, pc, screen, run, inflight, last>>

config == <<secrets, environ>>
widgets == <<model, max_tokens, temperature, user_query>>

(***************************************************************************)
(* Bounds of the model and constants of the program.                       *)
(***************************************************************************)
MaxPromptLen == 2
LongTokenLen == 11
ShortTokenLen == 3

MinTokens == 1
MaxTokens == 2000
DefaultMaxTokens == 70
MinTemperature == 0
MaxTemperature == 200
DefaultTemperature == 70
TokenPrefixLen == 10

Whitespace == {" ", "\n", "\t"}
PromptChars == {" ", "a"}
ModelOptions == <<"marcelbinz/Llama-3.1-Centaur-70B">>
Provider == "featherless-ai"

Min(a, b) == IF a < b THEN a ELSE b

\* A token: n copies of the character c.
Tok(c, n) == [i \in 1..n |-> c]

\* The optional value os.environ.get and hf_token hold: None or a string.
None == [isNone |-> TRUE, val |-> <<>>]
Some(t) == [isNone |-> FALSE, val |-> t]

\* st.secrets: no secrets file, a file without the key, or the key's value.
SecretsStore ==
    {[status |-> "FileNotFoundError", value |-> <<>>],
     [status |-> "KeyError", value |-> <<>>],
     [status |-> "present", value |-> <<>>],
     [status |-> "present", value |-> Tok("s", LongTokenLen)]}

\* os.environ: HF_TOKEN unset, empty, or set.
Environ == {None, Some(<<>>), Some(Tok("e", ShortTokenLen))}

Prompts == UNION {[1..n -> PromptChars] : n \in 0..MaxPromptLen}
MaxTokensChoices == {DefaultMaxTokens, MaxTokens}
TemperatureChoices == {MinTemperature, DefaultTemperature}

\* Exceptions the client library raises (subclasses of Exception).
NoExc == [type |-> "", msg |-> ""]
Exceptions ==
    {[type |-> "HfHubHTTPError", msg |-> "401 Unauthorized"],
     [type |-> "ValueError", msg |-> "Model not supported by provider"]}

(***************************************************************************)
(* Responses of client.text_generation: a str, a dict or something else    *)
(* (here a list holding one string).                                       *)
(***************************************************************************)
KeyOrder == <<"generated_text", "text", "content", "foo">>
ValueOf(k) ==
    CASE k = "generated_text" -> <<"Hi from generated_text">>
      [] k = "text" -> <<"Hi from text">>
      [] k = "content" -> <<"Hi from content">>
      [] OTHER -> <<"bar">>

Range(s) == {s[i] : i \in 1..Len(s)}
Dicts == {[k \in ks |-> ValueOf(k)] : ks \in SUBSET Range(KeyOrder)}
EmptyDict == [k \in {} |-> <<>>]

NoResponse == [type |-> "none", text |-> <<>>, items |-> EmptyDict]
Responses ==
    {[type |-> "str", text |-> <<"Hi there">>, items |-> EmptyDict]}
    \cup {[type |-> "dict", text |-> <<>>, items |-> d] : d \in Dicts}
    \cup {[type |-> "list", text |-> <<"Hi there">>, items |-> EmptyDict]}

\* repr of a str: the text in quotes.
Repr(s) == <<"'">> \o s \o <<"'">>

RECURSIVE ReprItems(_, _, _)
ReprItems(d, i, first) ==
    IF i > Len(KeyOrder) THEN <<>>
    ELSE IF KeyOrder[i] \in DOMAIN d
         THEN (IF first THEN <<>> ELSE <<", ">>)
              \o Repr(<<KeyOrder[i]>>) \o <<": ">> \o Repr(d[KeyOrder[i]])
              \o ReprItems(d, i + 1, FALSE)
         ELSE ReprItems(d, i + 1, first)

\* str(response) for a response that is not a str.
Str(r) ==
    IF r.type = "dict" THEN <<"{">> \o ReprItems(r.items, 1, TRUE) \o <<"}">>
    ELSE IF r.type = "list" THEN <<"[">> \o Repr(r.text) \o <<"]">>
    ELSE r.text

(***************************************************************************)
(* Pure parts of the script.                                               *)
(***************************************************************************)
RECURSIVE LStrip(_)
LStrip(s) ==
    IF s = <<>> THEN s
    ELSE IF Head(s) \in Whitespace THEN LStrip(Tail(s)) ELSE s

RECURSIVE RStrip(_)
RStrip(s) ==
    IF s = <<>> THEN s
    ELSE IF s[Len(s)] \in Whitespace THEN RStrip(SubSeq(s, 1, Len(s) - 1)) ELSE s

\* str.strip()
Strip(s) == RStrip(LStrip(s))

IsBlankNoStrip(q) == q = <<>>

\* not user_query.strip()
IsBlank(q) == Strip(q) = <<>>

\* try: st.secrets["HF_TOKEN"]  except (KeyError, FileNotFoundError): environ.get
LookupToken(s, e) == IF s.status = "present" THEN Some(s.value) ELSE e

TokenMissingNoneOnly(t) == t.isNone

\* not hf_token
TokenMissing(t) == t.isNone \/ t.val = <<>>

\* hf_token[:10]
TokenPrefix(t) == SubSeq(t, 1, Min(TokenPrefixLen, Len(t)))

NormaliseTextFirst(r) ==
    IF r.type = "str" THEN [result |-> r.text, warn |-> FALSE]
    ELSE IF r.type = "dict"
         THEN IF "text" \in DOMAIN r.items
              THEN [result |-> r.items["text"], warn |-> FALSE]
              ELSE IF "generated_text" \in DOMAIN r.items
              THEN [result |-> r.items["generated_text"], warn |-> FALSE]
              ELSE IF "content" \in DOMAIN r.items
              THEN [result |-> r.items["content"], warn |-> FALSE]
              ELSE [result |-> Str(r), warn |-> TRUE]
         ELSE [result |-> Str(r), warn |-> FALSE]

NormaliseNoWarning(r) ==
    IF r.type = "str" THEN [result |-> r.text, warn |-> FALSE]
    ELSE IF r.type = "dict"
         THEN IF "generated_text" \in DOMAIN r.items
              THEN [result |-> r.items["generated_text"], warn |-> FALSE]
              ELSE IF "text" \in DOMAIN r.items
              THEN [result |-> r.items["text"], warn |-> FALSE]
              ELSE IF "content" \in DOMAIN r.items
              THEN [result |-> r.items["content"], warn |-> FALSE]
              ELSE [result |-> Str(r), warn |-> FALSE]
         ELSE [result |-> Str(r), warn |-> FALSE]

\* The response normalisation: the text to show and whether the
\* unexpected-format warning is shown.
Normalise(r) ==
    IF r.type = "str" THEN [result |-> r.text, warn |-> FALSE]
    ELSE IF r.type = "dict"
         THEN IF "generated_text" \in DOMAIN r.items
              THEN [result |-> r.items["generated_text"], warn |-> FALSE]
              ELSE IF "text" \in DOMAIN r.items
              THEN [result |-> r.items["text"], warn |-> FALSE]
              ELSE IF "content" \in DOMAIN r.items
              THEN [result |-> r.items["content"], warn |-> FALSE]
              ELSE [result |-> Str(r), warn |-> TRUE]
         ELSE [result |-> Str(r), warn |-> FALSE]

ErrorBannerNoMessage(e) == <<"Error", e.type>>

\* f"Error: {type(e).__name__}: {e}"
ErrorBanner(e) == <<"Error", e.type, e.msg>>

\* The text of the "Debug Information" expander.
ErrorDetails(e, m) ==
    [shown |-> TRUE, type |-> e.type, message |-> e.msg, model |-> m,
     provider |-> Provider]
NoDetails ==
    [shown |-> FALSE, type |-> "", message |-> "", model |-> "", provider |-> ""]

DebugInfo(t, m) ==
    [shown |-> TRUE, prefix |-> TokenPrefix(t), length |-> Len(t), model |-> m,
     provider |-> Provider]
NoDebugInfo ==
    [shown |-> FALSE, prefix |-> <<>>, length |-> 0, model |-> "", provider |-> ""]

SettingsUsed(m, n, t) ==
    [shown |-> TRUE, model |-> m, max_tokens |-> n, temperature |-> t]
NoSettings == [shown |-> FALSE, model |-> "", max_tokens |-> 0, temperature |-> 0]

\* What the page shows below the title and the widgets.
BlankScreen ==
    [configError |-> FALSE, configInfo |-> FALSE, validationWarning |-> FALSE,
     debug |-> NoDebugInfo, probe |-> <<>>, success |-> FALSE, result |-> <<>>,
     formatWarning |-> FALSE, settings |-> NoSettings, error |-> <<>>,
     details |-> NoDetails, footer |-> FALSE]

NoArgs ==
    [prompt |-> <<>>, model |-> "", max_new_tokens |-> 0, temperature |-> 0,
     provider |-> "", api_key |-> <<>>]

\* What one script run has done so far with the client library.
FreshRun ==
    [probe |-> "none", probeExc |-> NoExc, construct |-> "none", call |-> "none",
     exc |-> NoExc, response |-> NoResponse, clients |-> {}, calls |-> 0,
     args |-> NoArgs]

\* The last completed generation: what the library did and what was shown.
NoLast ==
    [valid |-> FALSE, probe |-> "none", construct |-> "none", call |-> "none",
     exc |-> NoExc, response |-> NoResponse, success |-> FALSE, result |-> <<>>,
     formatWarning |-> FALSE, error |-> <<>>]

Summary(r, s) ==
    [valid |-> TRUE, probe |-> r.probe, construct |-> r.construct, call |-> r.call,
     exc |-> r.exc, response |-> r.response, success |-> s.success,
     result |-> s.result, formatWarning |-> s.formatWarning, error |-> s.error]

(***************************************************************************)
(* The state after the session starts: the first script run begins.        *)
(***************************************************************************)
Init ==
    /\ secrets \in SecretsStore
    /\ environ \in Environ
    /\ hf_token = None
    /\ model = ModelOptions[1]
    /\ max_tokens = DefaultMaxTokens
    /\ temperature = DefaultTemperature
    /\ user_query = <<>>
    /\ button = FALSE
    /\ pc = "resolve"
    /\ screen = BlankScreen
    /\ run = FreshRun
    /\ inflight = 0
    /\ last = NoLast

\* A widget event reruns the script from the top; the button is True only
\* in the run its press starts.
StartRun(pressed) ==
    /\ button' = pressed
    /\ pc' = "resolve"
    /\ screen' = BlankScreen
    /\ run' = FreshRun
    /\ UNCHANGED <<config, hf_token, inflight, last>>

EditPrompt(q) ==
    /\ pc = "idle"
    /\ q # user_query
    /\ user_query' = q
    /\ UNCHANGED <<model, max_tokens, temperature>>
    /\ StartRun(FALSE)

SetMaxTokens(n) ==
    /\ pc = "idle"
    /\ n # max_tokens
    /\ n >= MinTokens /\ n <= MaxTokens
    /\ max_tokens' = n
    /\ UNCHANGED <<model, temperature, user_query>>
    /\ StartRun(FALSE)

SetTemperature(t) ==
    /\ pc = "idle"
    /\ t # temperature
    /\ t >= MinTemperature /\ t <= MaxTemperature
    /\ temperature' = t
    /\ UNCHANGED <<model, max_tokens, user_query>>
    /\ StartRun(FALSE)

PressGenerate ==
    /\ pc = "idle"
    /\ UNCHANGED widgets
    /\ StartRun(TRUE)

\* A page reload after st.stop(): no widget was rendered, so this is the
\* only event.
Reload ==
    /\ pc = "stopped"
    /\ UNCHANGED widgets
    /\ StartRun(FALSE)

ResolveToken ==
    /\ pc = "resolve"
    /\ hf_token' = LookupToken(secrets, environ)
    /\ pc' = "check"
    /\ UNCHANGED <<config, widgets, button, screen, run, inflight, last>>

CheckToken ==
    /\ pc = "check"
    /\ IF TokenMissing(hf_token)
       THEN /\ screen' = [screen EXCEPT !.configError = TRUE, !.configInfo = TRUE]
            /\ pc' = "stopped"
       ELSE /\ screen' = screen
            /\ pc' = "handler"
    /\ UNCHANGED <<config, hf_token, widgets, button, run, inflight, last>>

\* The button was not pressed in this run: only the footer follows.
NoPress ==
    /\ pc = "handler"
    /\ ~button
    /\ screen' = [screen EXCEPT !.footer = TRUE]
    /\ pc' = "idle"
    /\ UNCHANGED <<config, hf_token, widgets, button, run, inflight, last>>

RejectBlank ==
    /\ pc = "handler"
    /\ button
    /\ IsBlank(user_query)
    /\ screen' = [screen EXCEPT !.validationWarning = TRUE, !.footer = TRUE]
    /\ pc' = "idle"
    /\ UNCHANGED <<config, hf_token, widgets, button, run, inflight, last>>

\* except Exception as e: the error banner, the expander, then the footer.
Fail(r, e) ==
    /\ run' = [r EXCEPT !.exc = e]
    /\ screen' = [screen EXCEPT !.error = ErrorBanner(e),
                                !.details = ErrorDetails(e, model),
                                !.footer = TRUE]
    /\ last' = Summary(run', screen')
    /\ pc' = "idle"

ProbeSucceeds ==
    /\ pc = "handler"
    /\ button
    /\ ~IsBlank(user_query)
    /\ run' = [run EXCEPT !.probe = "ok", !.clients = @ \cup {"direct"}]
    /\ screen' = [screen EXCEPT !.debug = DebugInfo(hf_token.val, model),
                                !.probe = <<"Direct HF access successful">>]
    /\ pc' = "construct"
    /\ UNCHANGED <<config, hf_token, widgets, button, inflight, last>>

ProbeRaisesGating(e) ==
    /\ pc = "handler"
    /\ button
    /\ ~IsBlank(user_query)
    /\ Fail([run EXCEPT !.probe = "raised", !.probeExc = e], e)
    /\ UNCHANGED <<config, hf_token, widgets, button, inflight>>

ProbeRaises(e) ==
    /\ pc = "handler"
    /\ button
    /\ ~IsBlank(user_query)
    /\ run' = [run EXCEPT !.probe = "raised", !.probeExc = e]
    /\ screen' = [screen EXCEPT !.debug = DebugInfo(hf_token.val, model),
                                !.probe = <<"Direct HF access failed", e.msg>>]
    /\ pc' = "construct"
    /\ UNCHANGED <<config, hf_token, widgets, button, inflight, last>>

ConstructSucceeds ==
    /\ pc = "construct"
    /\ run' = [run EXCEPT !.construct = "ok", !.clients = @ \cup {"provider"},
                          !.args = [NoArgs EXCEPT !.provider = Provider,
                                                  !.api_key = hf_token.val]]
    /\ pc' = "call"
    /\ UNCHANGED <<config, hf_token, widgets, button, screen, inflight, last>>

ConstructRaises(e) ==
    /\ pc = "construct"
    /\ Fail([run EXCEPT !.construct = "raised"], e)
    /\ UNCHANGED <<config, hf_token, widgets, button, inflight>>

IssueCall ==
    /\ pc = "call"
    /\ run' = [run EXCEPT !.calls = @ + 1,
                          !.args = [@ EXCEPT !.prompt = user_query,
                                             !.model = model,
                                             !.max_new_tokens = max_tokens,
                                             !.temperature = temperature]]
    /\ inflight' = inflight + 1
    /\ pc' = "await"
    /\ UNCHANGED <<config, hf_token, widgets, button, screen, last>>

RemoteReturns(r) ==
    /\ pc = "await"
    /\ inflight' = inflight - 1
    /\ run' = [run EXCEPT !.call = "returned", !.response = r]
    /\ screen' = [screen EXCEPT !.success = TRUE,
                                !.result = Normalise(r).result,
                                !.formatWarning = Normalise(r).warn,
                                !.settings = SettingsUsed(model, max_tokens, temperature),
                                !.footer = TRUE]
    /\ last' = Summary(run', screen')
    /\ pc' = "idle"
    /\ UNCHANGED <<config, hf_token, widgets, button>>

RemoteRaisesRetry(e) ==
    /\ pc = "await"
    /\ run.calls < 2
    /\ run' = [run EXCEPT !.calls = @ + 1]
    /\ UNCHANGED <<config, hf_token, widgets, button, screen, inflight, last, pc>>

RemoteRaisesSilently(e) ==
    /\ pc = "await"
    /\ inflight' = inflight - 1
    /\ run' = [run EXCEPT !.call = "raised", !.exc = e]
    /\ screen' = [screen EXCEPT !.footer = TRUE]
    /\ last' = Summary(run', screen')
    /\ pc' = "idle"
    /\ UNCHANGED <<config, hf_token, widgets, button>>

RemoteRaises(e) ==
    /\ pc = "await"
    /\ inflight' = inflight - 1
    /\ Fail([run EXCEPT !.call = "raised"], e)
    /\ UNCHANGED <<config, hf_token, widgets, button>>

UserEvent ==
    \/ \E q \in Prompts : EditPrompt(q)
    \/ \E n \in MaxTokensChoices : SetMaxTokens(n)
    \/ \E t \in TemperatureChoices : SetTemperature(t)
    \/ PressGenerate
    \/ Reload

RemoteCompletes ==
    \/ \E r \in Responses : RemoteReturns(r)
    \/ \E e \in Exceptions : RemoteRaises(e)

ScriptStep ==
    \/ ResolveToken
    \/ CheckToken
    \/ NoPress
    \/ RejectBlank
    \/ ProbeSucceeds
    \/ \E e \in Exceptions : ProbeRaises(e)
    \/ ConstructSucceeds
    \/ \E e \in Exceptions : ConstructRaises(e)
    \/ IssueCall

Next == UserEvent \/ ScriptStep \/ RemoteCompletes

Spec == Init /\ [][Next]_vars

\* The script runs on, and the blocking call returns or raises.
FairSpec == Spec /\ WF_vars(ScriptStep) /\ WF_vars(RemoteCompletes)

(***************************************************************************)
(* Properties.                                                             *)
(***************************************************************************)
AllWhitespace(q) == \A i \in 1..Len(q) : q[i] \in Whitespace
KnownKeys == {"generated_text", "text", "content"}
Generated == pc = "idle" /\ run.call = "returned"
Outcomes(s) == (IF s.success THEN 1 ELSE 0) + (IF s.error # <<>> THEN 1 ELSE 0)
SecretsUsable == secrets.status = "present" /\ secrets.value # <<>>
EnvironUsable == ~environ.isNone /\ environ.val # <<>>

\* C1: in a run started by the generate button with an empty or
\* whitespace-only prompt, no client is constructed and no text-generation
\* call is issued, and the run ends showing the validation warning and
\* neither a result nor an error.
C1_BlankPromptRejected ==
    (button /\ AllWhitespace(user_query)) =>
        /\ run = FreshRun
        /\ inflight = 0
        /\ pc \notin {"construct", "call", "await"}
        /\ pc = "idle" =>
              /\ screen.validationWarning
              /\ Outcomes(screen) = 0
              /\ ~screen.debug.shown

C1_Witness ==
    /\ pc = "idle"
    /\ button
    /\ user_query = <<" ">>
    /\ screen.validationWarning
    /\ run.clients = {}

\* C2 (as amended): an exception raised by the construction of the
\* provider-bound client or by the text-generation call ends the run with the
\* error banner carrying the exception's type name and message and the
\* expander carrying type, message, model and provider; no success is shown
\* and the script runs on to its footer.  An exception raised by the
\* direct-access probe is caught on its own and only shown as a warning
\* with its message.
C2_ExceptionBecomesFailure ==
    /\ (run.construct = "raised" \/ run.call = "raised") =>
          /\ run.exc \in Exceptions
          /\ pc = "idle"
          /\ screen.error = <<"Error", run.exc.type, run.exc.msg>>
          /\ screen.details.shown
          /\ screen.details.type = run.exc.type
          /\ screen.details.message = run.exc.msg
          /\ screen.details.model = model
          /\ screen.details.provider = "featherless-ai"
          /\ ~screen.success
          /\ screen.result = <<>>
          /\ screen.footer
    /\ run.probe = "raised" =>
          /\ run.probeExc \in Exceptions
          /\ screen.probe = <<"Direct HF access failed", run.probeExc.msg>>
    /\ (screen.error # <<>>) => (run.construct = "raised" \/ run.call = "raised")

C2_Witness ==
    /\ pc = "idle"
    /\ run.call = "raised"
    /\ run.probe = "ok"
    /\ screen.error = <<"Error", "HfHubHTTPError", "401 Unauthorized">>

\* C2 (as claimed): every exception raised during a client construction or
\* the call, the probe's construction included, ends the run in a Failure
\* with no Success.
C2_AnyExceptionIsFailure ==
    (pc = "idle"
     /\ (run.probe = "raised" \/ run.construct = "raised" \/ run.call = "raised")) =>
        /\ screen.error # <<>>
        /\ ~screen.success

\* C3: with no token in the secrets store and none in the environment the
\* run never gets past the token check: it stops with the error and the
\* guidance shown, and no client is constructed and no call is issued.
C3_NoTokenHalts ==
    (~SecretsUsable /\ ~EnvironUsable) =>
        /\ pc \in {"resolve", "check", "stopped"}
        /\ run = FreshRun
        /\ inflight = 0
        /\ ~button
        /\ pc = "stopped" => (screen.configError /\ screen.configInfo /\ ~screen.footer)

C3_Witness ==
    /\ pc = "stopped"
    /\ secrets.status = "present"
    /\ environ.isNone
    /\ screen.configError
    /\ screen.configInfo

\* C4: for a mapping response the text shown is the value of the first key
\* present in the order generated_text, text, content.
C4_MappingPriority ==
    (Generated /\ run.response.type = "dict") =>
        LET d == run.response.items IN
        /\ "generated_text" \in DOMAIN d => screen.result = d["generated_text"]
        /\ ("generated_text" \notin DOMAIN d /\ "text" \in DOMAIN d) =>
              screen.result = d["text"]
        /\ ({"generated_text", "text"} \cap DOMAIN d = {} /\ "content" \in DOMAIN d) =>
              screen.result = d["content"]
        /\ (KnownKeys \cap DOMAIN d # {}) => (screen.success /\ screen.error = <<>>)

C4_Witness ==
    /\ Generated
    /\ run.response.type = "dict"
    /\ KnownKeys \subseteq DOMAIN run.response.items
    /\ screen.result = <<"Hi from generated_text">>

\* C5: a mapping response with none of the known keys gives a success whose
\* text is the string form of the whole mapping, with the unexpected-format
\* warning; a plain string or a mapping with a known key gives no warning.
C5_UnknownKeysDegraded ==
    Generated =>
        LET r == run.response IN
        /\ (r.type = "dict" /\ KnownKeys \cap DOMAIN r.items = {}) =>
              /\ screen.success
              /\ screen.error = <<>>
              /\ screen.formatWarning
              /\ Head(screen.result) = "{"
              /\ screen.result[Len(screen.result)] = "}"
              /\ DOMAIN r.items = {"foo"} =>
                    screen.result = <<"{", "'", "foo", "'", ": ", "'", "bar", "'", "}">>
              /\ DOMAIN r.items = {} => screen.result = <<"{", "}">>
        /\ (r.type = "str" \/ (r.type = "dict" /\ KnownKeys \cap DOMAIN r.items # {})) =>
              ~screen.formatWarning
        /\ r.type = "str" => screen.result = r.text

C5_Witness ==
    /\ Generated
    /\ run.response.type = "dict"
    /\ DOMAIN run.response.items = {"foo"}
    /\ screen.formatWarning
    /\ screen.success

\* C6 (as claimed): whenever the secrets store or the environment holds a
\* non-empty token, the run does not stop at the token check and goes on
\* with a non-empty token.
C6_UsableTokenProceeds ==
    (SecretsUsable \/ EnvironUsable) =>
        /\ pc # "stopped"
        /\ pc \in {"handler", "construct", "call", "await", "idle"} =>
              (~hf_token.isNone /\ hf_token.val # <<>>)

\* C7: a run issues at most one text-generation call, exactly one when the
\* provider-bound client was constructed, and none for an unpressed button
\* or a blank prompt; once the failure is shown the run issues no further
\* call; the token changes only when the first run resolves it, and the
\* secrets store and the environment are never written.
C7_AtMostOneCall ==
    /\ [](/\ run.calls <= 1
          /\ (run.construct = "ok" /\ pc \in {"await", "idle"}) => run.calls = 1
          /\ run.construct # "ok" => run.calls = 0
          /\ run.calls = 1 => (button /\ ~AllWhitespace(user_query))
          /\ run.calls = 1 =>
                /\ run.args.prompt = user_query
                /\ run.args.api_key = hf_token.val
                /\ run.args.max_new_tokens = max_tokens
                /\ run.args.temperature = temperature)
    /\ [][/\ (screen.error # <<>> /\ pc' # "resolve") => run'.calls = run.calls
          /\ hf_token' # hf_token => (pc = "resolve" /\ hf_token = None)
          /\ UNCHANGED config]_vars

C7_Witness ==
    /\ pc = "idle"
    /\ run.call = "raised"
    /\ run.calls = 1
    /\ screen.error # <<>>
    /\ hf_token = Some(Tok("e", ShortTokenLen))

\* C8: at most one call is in flight, and it is in flight exactly while the
\* handler waits for the remote call; leaving that state shows exactly one
\* of success and failure and returns to idle with nothing in flight; and
\* every wait is eventually followed by idle.
C8_RequestCycle ==
    /\ [](/\ inflight \in {0, 1}
          /\ inflight = 1 <=> pc = "await"
          /\ pc = "await" => Outcomes(screen) = 0)
    /\ [][(pc = "await" /\ pc' # "await") =>
            /\ pc' = "idle"
            /\ inflight' = 0
            /\ Outcomes(screen') = 1]_vars
    /\ (pc = "await") ~> (pc = "idle" /\ Outcomes(screen) = 1 /\ inflight = 0)

C8_Witness ==
    /\ pc = "idle"
    /\ run.call = "returned"
    /\ last.valid
    /\ Outcomes(screen) = 1
    /\ inflight = 0

\* C9: after the probe, whether it succeeded or raised, the provider-bound
\* client is constructed and, if that succeeds, the call is issued; and two
\* generations that differ only in the probe's result show the same outcome.
C9_ProbeDoesNotGate ==
    /\ [](run.probe # "none" =>
            /\ pc \in {"construct", "call", "await", "idle"}
            /\ pc \in {"call", "await", "idle"} => run.construct # "none"
            /\ (pc \in {"await", "idle"} /\ run.construct = "ok") =>
                  (run.calls = 1 /\ "provider" \in run.clients))
    /\ [][(/\ pc # "idle" /\ pc' = "idle"
           /\ run'.probe # "none"
           /\ last.valid
           /\ last.probe # run'.probe
           /\ last.construct = run'.construct
           /\ last.call = run'.call
           /\ last.exc = run'.exc
           /\ last.response = run'.response) =>
            /\ last.success = screen'.success
            /\ last.result = screen'.result
            /\ last.formatWarning = screen'.formatWarning
            /\ last.error = screen'.error]_vars

C9_Witness ==
    /\ pc = "idle"
    /\ run.probe = "raised"
    /\ "provider" \in run.clients
    /\ run.calls = 1
    /\ screen.success
    /\ screen.probe # <<>>

\* C10 (as claimed): a response that is neither a string nor a mapping is
\* shown as its string form, as a success, with the unexpected-format
\* warning.
C10_OtherShapeWarned ==
    (Generated /\ run.response.type \notin {"str", "dict"}) =>
        /\ screen.success
        /\ screen.error = <<>>
        /\ screen.result = <<"[", "'", "Hi there", "'", "]">>
        /\ screen.formatWarning

====
